---- MODULE Spec2Model ----
(***************************************************************************)
(* Patient registry (cadastro-pacientes): the Supabase-backed               *)
(* PatientManagement component, the PatientForm it renders twice (create    *)
(* and edit), the DeleteConfirmModal and the `pacientes` table with its     *)
(* row-level policies.                                                      *)
(*                                                                          *)
(* Text is modelled as a sequence of one-character strings, so that trim,   *)
(* the regular expressions of the schema, the formatters and the search     *)
(* filter are computed as the code computes them.                           *)
(***************************************************************************)
EXTENDS Integers, Sequences, FiniteSets, TLC

\* ------------------------------------------------------------------ bounds
\* Handler invocations (create/update/delete/load) that may be in flight at once.
MaxCalls == 2
\* Rows the store creates on top of the ones it starts with.
MaxInserts == 1
\* Handler invocations (loads and mutations) budget in one run.
MaxOps == 3
\* The same budget for the runs that try every sample entry, invalid ones included.
FormOps == 2
\* The same budget for the runs checked under fairness.
LiveOps == 2
\* The same budget for the runs that try every search term.
SearchOps == 2
\* The same budget for the runs in which the tax id and phone are typed key by key.
TypeOps == 2
\* The same budget for the runs in which a second account signs in.
IsoOps == 3
\* The same budget for the runs in which operations never overlap.
SeqOps == 4
\* Digits a typed tax id or phone may reach.
MaxTyped == 12

\* ------------------------------------------------------- program constants
NameMax == 255
AddressMax == 1000
CpfDigits == 11
PhoneLong == 11
PhoneShort == 10

\* -------------------------------------------------------------------- text
Digit == {"0", "1", "2", "3", "4", "5", "6", "7", "8", "9"}
WhiteSpace == {" ", "\t", "\n"}
UpperChars == <<"A", "B", "C", "D", "E", "F", "G", "H", "I", "J", "K", "L", "M",
                "N", "O", "P", "Q", "R", "S", "T", "U", "V", "W", "X", "Y", "Z">>
LowerChars == <<"a", "b", "c", "d", "e", "f", "g", "h", "i", "j", "k", "l", "m",
                "n", "o", "p", "q", "r", "s", "t", "u", "v", "w", "x", "y", "z">>

EmptyStr == <<>>

SetMin(S) == CHOOSE x \in S : \A y \in S : x <= y
SetMax(S) == CHOOSE x \in S : \A y \in S : x >= y

\* String.prototype.trim
Trim(s) ==
    LET keep == {i \in 1..Len(s) : s[i] \notin WhiteSpace}
    IN  IF keep = {} THEN EmptyStr ELSE SubSeq(s, SetMin(keep), SetMax(keep))

\* String.prototype.toLowerCase
LowerChar(c) ==
    IF \E i \in 1..Len(UpperChars) : UpperChars[i] = c
    THEN LowerChars[CHOOSE i \in 1..Len(UpperChars) : UpperChars[i] = c]
    ELSE c
\* Variant: the text is compared as typed.
ToLowerCaseAsTyped(s) == s

ToLowerCase(s) == [i \in 1..Len(s) |-> LowerChar(s[i])]

\* String.prototype.includes
Includes(s, sub) ==
    \E k \in 0..(Len(s) - Len(sub)) : \A i \in 1..Len(sub) : s[k + i] = sub[i]

\* value.replace(/\D/g, '')
StripNonDigits(s) == SelectSeq(s, LAMBDA c : c \in Digit)

AllDigits(s, from, to) == \A i \in from..to : s[i] \in Digit

\* ------------------------------------------------------- PatientForm schema
\* /^\d{3}\.\d{3}\.\d{3}-\d{2}$/
CpfRegex(s) ==
    /\ Len(s) = 14
    /\ AllDigits(s, 1, 3) /\ s[4] = "."
    /\ AllDigits(s, 5, 7) /\ s[8] = "."
    /\ AllDigits(s, 9, 11) /\ s[12] = "-"
    /\ AllDigits(s, 13, 14)

\* /^\(\d{2}\) \d{4,5}-\d{4}$/
PhoneRegex(s) ==
    /\ Len(s) \in {14, 15}
    /\ s[1] = "(" /\ AllDigits(s, 2, 3) /\ s[4] = ")" /\ s[5] = " "
    /\ AllDigits(s, 6, Len(s) - 5)
    /\ s[Len(s) - 4] = "-"
    /\ AllDigits(s, Len(s) - 3, Len(s))

FieldNames == {"nome_completo", "data_nascimento", "cpf", "telefone", "endereco_completo"}

\* Variant: the tax id is only required, its pattern is not checked.
SchemaErrorsNoCpfPattern(v) ==
    {f \in FieldNames :
        \/ f = "nome_completo" /\ ~(Len(Trim(v.nome_completo)) >= 1 /\ Len(Trim(v.nome_completo)) <= NameMax)
        \/ f = "data_nascimento" /\ ~(Len(v.data_nascimento) >= 1)
        \/ f = "cpf" /\ ~(Len(Trim(v.cpf)) >= 1)
        \/ f = "telefone" /\ ~(v.telefone = EmptyStr \/ PhoneRegex(v.telefone))
        \/ f = "endereco_completo" /\ ~(Len(v.endereco_completo) <= AddressMax)}

\* patientSchema: the set of fields of `v` that fail their rule.
SchemaErrors(v) ==
    {f \in FieldNames :
        \/ f = "nome_completo" /\ ~(Len(Trim(v.nome_completo)) >= 1 /\ Len(Trim(v.nome_completo)) <= NameMax)
        \/ f = "data_nascimento" /\ ~(Len(v.data_nascimento) >= 1)
        \/ f = "cpf" /\ ~(Len(Trim(v.cpf)) >= 1 /\ CpfRegex(Trim(v.cpf)))
        \/ f = "telefone" /\ ~(v.telefone = EmptyStr \/ PhoneRegex(v.telefone))
        \/ f = "endereco_completo" /\ ~(Len(v.endereco_completo) <= AddressMax)}

\* patientSchema's output: name and tax id are trimmed, the rest passes through.
SchemaParse(v) ==
    [nome_completo |-> Trim(v.nome_completo),
     data_nascimento |-> v.data_nascimento,
     cpf |-> Trim(v.cpf),
     telefone |-> v.telefone,
     endereco_completo |-> v.endereco_completo]

\* Variant: the separators are put in as soon as there are digits enough for them.
formatCPFPartial(value) ==
    LET cleaned == StripNonDigits(value)
    IN  IF Len(cleaned) >= CpfDigits
        THEN SubSeq(cleaned, 1, 3) \o <<".">> \o SubSeq(cleaned, 4, 6) \o <<".">>
             \o SubSeq(cleaned, 7, 9) \o <<"-">> \o SubSeq(cleaned, 10, Len(cleaned))
        ELSE cleaned

\* formatCPF
formatCPF(value) ==
    LET cleaned == StripNonDigits(value)
    IN  IF Len(cleaned) = CpfDigits
        THEN SubSeq(cleaned, 1, 3) \o <<".">> \o SubSeq(cleaned, 4, 6) \o <<".">>
             \o SubSeq(cleaned, 7, 9) \o <<"-">> \o SubSeq(cleaned, 10, 11)
        ELSE cleaned

\* Variant: only the eleven-digit (mobile) numbering is formatted.
formatPhoneMobileOnly(value) ==
    LET cleaned == StripNonDigits(value)
    IN  IF Len(cleaned) = PhoneLong
        THEN <<"(">> \o SubSeq(cleaned, 1, 2) \o <<")", " ">> \o SubSeq(cleaned, 3, 7)
             \o <<"-">> \o SubSeq(cleaned, 8, 11)
        ELSE cleaned

\* formatPhone
formatPhone(value) ==
    LET cleaned == StripNonDigits(value)
    IN  IF Len(cleaned) = PhoneLong
        THEN <<"(">> \o SubSeq(cleaned, 1, 2) \o <<")", " ">> \o SubSeq(cleaned, 3, 7)
             \o <<"-">> \o SubSeq(cleaned, 8, 11)
        ELSE IF Len(cleaned) = PhoneShort
        THEN <<"(">> \o SubSeq(cleaned, 1, 2) \o <<")", " ">> \o SubSeq(cleaned, 3, 6)
             \o <<"-">> \o SubSeq(cleaned, 7, 10)
        ELSE cleaned


\* ---------------------------------------------------------- sample inputs
\* What a user may type into a form: each tuple is the raw text of the five
\* inputs.  The common entries are valid: the first stored record with its
\* name in upper case, and a new record whose name needs trimming.  A third
\* valid entry repeats the tax id of another account's record, and the
\* invalid entries fail one schema rule each.
NameAna == <<"A", "n", "a">>
NameUpper == <<"A", "N", "A">>
NamePadded == <<" ", "B", "o", " ">>
NameBlank == <<" ", " ">>
NameTooLong == [i \in 1..(NameMax + 1) |-> "x"]
DateOk == <<"2", "0", "0", "0", "-", "0", "1", "-", "0", "2">>
CpfRawA == <<"1", "1", "1", "2", "2", "2", "3", "3", "3", "4", "4">>
CpfRawB == <<"5", "5", "5", ".", "6", "6", "6", ".", "7", "7", "7", "-", "8", "8">>
CpfRawC == <<"9", "9", "9", "0", "0", "0", "1", "1", "1", "2", "2">>
CpfRawShort == <<"1", "1", "1", "2", "2", "2", "3", "3", "3", "4">>
TelRaw11 == <<"1", "1", "9", "8", "8", "8", "8", "7", "7", "7", "7">>
TelRaw10 == <<"(", "1", "1", ")", "3", "3", "3", "3", "4", "4", "4", "4">>
TelRawBad == <<"1", "2", "3", "4">>
AddrRua == <<"R", "u", "a">>
AddrTooLong == [i \in 1..(AddressMax + 1) |-> "y"]

Raw(n, d, c, t, e) ==
    [nome_completo |-> n, data_nascimento |-> d, cpf |-> c, telefone |-> t,
     endereco_completo |-> e]

CommonInputs ==
    {Raw(NameUpper, DateOk, CpfRawA, EmptyStr, EmptyStr),
     Raw(NamePadded, DateOk, CpfRawB, TelRaw11, AddrRua)}

ValidInputs == CommonInputs \cup {Raw(NameAna, DateOk, CpfRawC, TelRaw10, EmptyStr)}

InvalidInputs ==
    {Raw(NameBlank, DateOk, CpfRawA, EmptyStr, EmptyStr),
     Raw(NameTooLong, DateOk, CpfRawA, EmptyStr, EmptyStr),
     Raw(NameAna, EmptyStr, CpfRawA, EmptyStr, EmptyStr),
     Raw(NameAna, DateOk, CpfRawShort, EmptyStr, EmptyStr),
     Raw(NameAna, DateOk, CpfRawA, TelRawBad, EmptyStr),
     Raw(NameAna, DateOk, CpfRawA, EmptyStr, AddrTooLong)}

RawInputs == ValidInputs \cup InvalidInputs

SearchTerms ==
    {EmptyStr, <<"a", "n">>, <<"5", "5", "5", ".">>, <<"A", "N">>, <<"5", "5", "5", "6">>}
CommonTerms == {EmptyStr, <<"a", "n">>}

\* ------------------------------------------------------------------- state
NoUser == "none"
Users == {"u1"}
\* Another account of the same store.
OtherUser == "u2"
Accounts == Users \cup {OtherUser}

Null == [null |-> TRUE]

EmptyValues == Raw(EmptyStr, EmptyStr, EmptyStr, EmptyStr, EmptyStr)
EmptyForm == [values |-> EmptyValues, defaults |-> EmptyValues, errors |-> {}]

VARIABLES
    user,             \* useAuth().user: the session identity, or NoUser
    db,               \* public.pacientes: the set of stored rows
    serial,           \* rows inserted so far (source of fresh ids and of now())
    budget,           \* handler invocations this run may still start
    patients,         \* useState<Patient[]>
    searchTerm,       \* useState('')
    isFormOpen,       \* useState(false)
    editingPatient,   \* useState<Patient | null>
    deletingPatient,  \* useState<Patient | null>
    loading,          \* useState(true)
    createForm,       \* react-hook-form state of the creation PatientForm
    editForm,         \* react-hook-form state of the edit PatientForm
    calls,            \* handler invocations suspended on a remote request
    toast             \* notifications raised by the last step

vars == <<user, db, serial, budget, patients, searchTerm, isFormOpen, editingPatient,
          deletingPatient, loading, createForm, editForm, calls, toast>>

uiVars == <<searchTerm, isFormOpen, editingPatient, deletingPatient, createForm, editForm>>


\* ------------------------------------------------------------ remote store
\* Row-level policies: USING (auth.uid() = user_id).
Visible(d, uid) == {r \in d : uid # NoUser /\ r.user_id = uid}

RECURSIVE OrderByCadastroDesc(_)
\* .order('data_cadastro', { ascending: false })
OrderByCadastroDesc(S) ==
    IF S = {} THEN <<>>
    ELSE LET m == CHOOSE r \in S : \A q \in S : q.data_cadastro <= r.data_cadastro
         IN  <<m>> \o OrderByCadastroDesc(S \ {m})

\* Variant: the select without its order clause (rows as the table yields them).
SelectAllUnordered(d, uid) ==
    IF Visible(d, uid) = {} THEN <<>>
    ELSE LET m == CHOOSE r \in Visible(d, uid) :
                      \A q \in Visible(d, uid) : r.data_cadastro <= q.data_cadastro
         IN  <<m>> \o OrderByCadastroDesc(Visible(d, uid) \ {m})

\* select('*') under the SELECT policy
SelectAll(d, uid) == OrderByCadastroDesc(Visible(d, uid))

\* Variant: the tax id unique among the caller's rows only.
InsertOkPerOwner(d, uid, arg) ==
    /\ uid # NoUser
    /\ arg.user_id = uid
    /\ \A r \in Visible(d, uid) : r.cpf # arg.cpf

\* INSERT: WITH CHECK (auth.uid() = user_id), cpf UNIQUE
InsertOk(d, uid, arg) ==
    /\ uid # NoUser
    /\ arg.user_id = uid
    /\ \A r \in d : r.cpf # arg.cpf

\* Variant: data_cadastro without its DEFAULT now().
InsertRowNoTimestamp(arg, n) ==
    [id |-> n,
     nome_completo |-> arg.nome_completo,
     data_nascimento |-> arg.data_nascimento,
     cpf |-> arg.cpf,
     telefone |-> arg.telefone,
     endereco_completo |-> arg.endereco_completo,
     data_cadastro |-> 0,
     user_id |-> arg.user_id]

\* The stored row: id and data_cadastro are the column defaults.
InsertRow(arg, n) ==
    [id |-> n,
     nome_completo |-> arg.nome_completo,
     data_nascimento |-> arg.data_nascimento,
     cpf |-> arg.cpf,
     telefone |-> arg.telefone,
     endereco_completo |-> arg.endereco_completo,
     data_cadastro |-> n,
     user_id |-> arg.user_id]

\* UPDATE ... WHERE id = arg.id under the UPDATE policy
UpdateTargets(d, uid, id) == {r \in Visible(d, uid) : r.id = id}

UpdateOk(d, uid, arg) ==
    \A t \in UpdateTargets(d, uid, arg.id) : \A r \in d \ {t} : r.cpf # arg.cpf

\* Variant: an update that also stamps the row's time.
UpdateRowStamped(r, arg) ==
    [r EXCEPT !.nome_completo = arg.nome_completo,
              !.data_nascimento = arg.data_nascimento,
              !.cpf = arg.cpf,
              !.telefone = arg.telefone,
              !.endereco_completo = arg.endereco_completo,
              !.data_cadastro = r.data_cadastro + 1]

UpdateRow(r, arg) ==
    [r EXCEPT !.nome_completo = arg.nome_completo,
              !.data_nascimento = arg.data_nascimento,
              !.cpf = arg.cpf,
              !.telefone = arg.telefone,
              !.endereco_completo = arg.endereco_completo]

UpdateRows(d, uid, arg) ==
    {IF r \in UpdateTargets(d, uid, arg.id) THEN UpdateRow(r, arg) ELSE r : r \in d}

\* Variant: a delete by range instead of by equality.
DeleteRowsUpTo(d, uid, id) == d \ {r \in Visible(d, uid) : r.id <= id}

\* Variant: the table without its DELETE policy.
DeleteRowsAnyOwner(d, uid, id) == d \ {r \in d : r.id = id}

\* DELETE ... WHERE id = id under the DELETE policy
DeleteRows(d, uid, id) == d \ {r \in Visible(d, uid) : r.id = id}

\* ------------------------------------------------------------------- calls
\* A handler invocation suspended on a request: who started it (origin), the
\* request it waits for (phase), the session the request was sent under (uid),
\* the request's argument, and the store's answer once it is there (ok, rows).
\* n numbers the invocations of a run.
HasFree == budget > 0 /\ Cardinality(calls) < MaxCalls

NewCall(origin, phase, uid, arg) ==
    [n |-> MaxOps - budget + 1, origin |-> origin, phase |-> phase, uid |-> uid,
     arg |-> arg, ok |-> FALSE, rows |-> <<>>]

PendingInserts ==
    Cardinality({c \in calls : c.origin = "create" /\ c.phase = "mut_sent"})

\* The call `c` replaced by its next stage `d`, or removed.
Become(c, d) == (calls \ {c}) \cup {d}
Finish(c) == calls \ {c}

Toast(title, variant) == [title |-> title, variant |-> variant]

\* ------------------------------------------------------------- derived view
\* filteredPatients
filteredPatients ==
    SelectSeq(patients, LAMBDA p :
        \/ Includes(ToLowerCase(p.nome_completo), ToLowerCase(searchTerm))
        \/ Includes(p.cpf, searchTerm))

\* The page is rendered only once loading is false (the spinner replaces it).
UIReady == ~loading

NoDialogOpen == ~isFormOpen /\ editingPatient = Null /\ deletingPatient = Null

\* The form's working values for a stored record (useForm defaultValues / reset).
ValuesOf(p) ==
    Raw(p.nome_completo, p.data_nascimento, p.cpf, p.telefone, p.endereco_completo)

\* -------------------------------------------------------------------- Init
\* The table as earlier sessions left it: one row of the user of this browser
\* and one row of another account, each stored from a validated payload.
SeedRows ==
    {InsertRow([nome_completo |-> NameAna, data_nascimento |-> DateOk,
                cpf |-> formatCPF(CpfRawA), telefone |-> EmptyStr,
                endereco_completo |-> EmptyStr, user_id |-> "u1"], 1),
     InsertRow([nome_completo |-> NameAna, data_nascimento |-> DateOk,
                cpf |-> formatCPF(CpfRawC), telefone |-> EmptyStr,
                endereco_completo |-> EmptyStr, user_id |-> OtherUser], 2)}

InitWith(ops) ==
    /\ user = NoUser
    /\ db = SeedRows
    /\ serial = Cardinality(SeedRows)
    /\ budget = ops
    /\ patients = <<>>
    /\ searchTerm = EmptyStr
    /\ isFormOpen = FALSE
    /\ editingPatient = Null
    /\ deletingPatient = Null
    /\ loading = TRUE
    /\ createForm = EmptyForm
    /\ editForm = EmptyForm
    /\ calls = {}
    /\ toast = <<>>

Init == InitWith(MaxOps)

\* ----------------------------------------------------------------- session
\* useEffect(() => { if (user) fetchPatients(); }, [user]) on a session that starts.
SessionStart(u) ==
    /\ user = NoUser
    /\ u \in Accounts
    /\ HasFree
    /\ user' = u
    /\ calls' = calls \cup {NewCall("effect", "sel_sent", u, Null)}
    /\ budget' = budget - 1
    /\ toast' = <<>>
    /\ UNCHANGED <<db, serial, patients, loading>>
    /\ UNCHANGED uiVars

\* Variant: the effect without its `if (user)`, so it fetches on sign-out too.
handleLogoutRefetch ==
    /\ UIReady /\ NoDialogOpen
    /\ user # NoUser
    /\ HasFree
    /\ user' = NoUser
    /\ calls' = calls \cup {NewCall("effect", "sel_sent", NoUser, Null)}
    /\ budget' = budget - 1
    /\ toast' = <<>>
    /\ UNCHANGED <<db, serial, patients, loading>>
    /\ UNCHANGED uiVars

\* handleLogout: signOut().  The effect runs again, user is null, nothing is fetched.
handleLogout ==
    /\ UIReady /\ NoDialogOpen
    /\ user # NoUser
    /\ user' = NoUser
    /\ toast' = <<>>
    /\ UNCHANGED <<db, serial, budget, patients, loading, calls>>
    /\ UNCHANGED uiVars


\* ------------------------------------------------------- PatientManagement
\* onClick={() => setIsFormOpen(true)}
ClickNew ==
    /\ UIReady /\ NoDialogOpen
    /\ isFormOpen' = TRUE
    /\ toast' = <<>>
    /\ UNCHANGED <<user, db, serial, budget, patients, loading, calls, searchTerm,
                   editingPatient, deletingPatient, createForm, editForm>>

\* onChange={(e) => setSearchTerm(e.target.value)}
SetSearch(term) ==
    /\ UIReady /\ NoDialogOpen
    /\ term \in SearchTerms /\ term # searchTerm
    /\ searchTerm' = term
    /\ toast' = <<>>
    /\ UNCHANGED <<user, db, serial, budget, patients, loading, calls, isFormOpen,
                   editingPatient, deletingPatient, createForm, editForm>>

\* handleEditClick, then PatientForm's effect: initialData && isOpen => reset(values)
handleEditClick(i) ==
    /\ UIReady /\ NoDialogOpen
    /\ i \in 1..Len(filteredPatients)
    /\ editingPatient' = filteredPatients[i]
    /\ editForm' = [values |-> ValuesOf(filteredPatients[i]),
                    defaults |-> ValuesOf(filteredPatients[i]),
                    errors |-> {}]
    /\ toast' = <<>>
    /\ UNCHANGED <<user, db, serial, budget, patients, loading, calls, searchTerm,
                   isFormOpen, deletingPatient, createForm>>

\* Variant: the row's button deletes at once, without the confirmation step.
handleDeleteClickEager(i) ==
    /\ UIReady /\ NoDialogOpen
    /\ i \in 1..Len(filteredPatients)
    /\ HasFree
    /\ deletingPatient' = filteredPatients[i]
    /\ calls' = calls \cup
                   {NewCall("delete", "mut_sent", user, [id |-> filteredPatients[i].id])}
    /\ budget' = budget - 1
    /\ toast' = <<>>
    /\ UNCHANGED <<user, db, serial, patients, loading, searchTerm,
                   isFormOpen, editingPatient, createForm, editForm>>

\* handleDeleteClick
handleDeleteClick(i) ==
    /\ UIReady /\ NoDialogOpen
    /\ i \in 1..Len(filteredPatients)
    /\ deletingPatient' = filteredPatients[i]
    /\ toast' = <<>>
    /\ UNCHANGED <<user, db, serial, budget, patients, loading, calls, searchTerm,
                   isFormOpen, editingPatient, createForm, editForm>>

\* DeleteConfirmModal onClose={() => setDeletingPatient(null)}
CancelDelete ==
    /\ deletingPatient # Null
    /\ deletingPatient' = Null
    /\ toast' = <<>>
    /\ UNCHANGED <<user, db, serial, budget, patients, loading, calls, searchTerm,
                   isFormOpen, editingPatient, createForm, editForm>>

\* handleDeletePatient(id), up to its first await: the delete request is sent.
handleDeletePatient(id) ==
    /\ HasFree
    /\ calls' = calls \cup {NewCall("delete", "mut_sent", user, [id |-> id])}
    /\ budget' = budget - 1

\* onConfirm={() => deletingPatient && handleDeletePatient(deletingPatient.id)}
ConfirmDelete ==
    /\ deletingPatient # Null
    /\ handleDeletePatient(deletingPatient.id)
    /\ toast' = <<>>
    /\ UNCHANGED <<user, db, serial, patients, loading, searchTerm, isFormOpen,
                   editingPatient, deletingPatient, createForm, editForm>>

\* Variant: the payload is inserted as the form gave it, no owner attached.
handleCreatePatientNoOwner(data) ==
    /\ HasFree
    /\ serial + PendingInserts < Cardinality(SeedRows) + MaxInserts
    /\ calls' = calls \cup
                   {NewCall("create", "mut_sent", user,
                            [nome_completo |-> data.nome_completo,
                             data_nascimento |-> data.data_nascimento,
                             cpf |-> data.cpf,
                             telefone |-> data.telefone,
                             endereco_completo |-> data.endereco_completo,
                             user_id |-> NoUser])}
    /\ budget' = budget - 1

\* handleCreatePatient(data), up to its first await: insert([{...data, user_id: user?.id}])
handleCreatePatient(data) ==
    /\ HasFree
    /\ serial + PendingInserts < Cardinality(SeedRows) + MaxInserts
    /\ calls' = calls \cup
                   {NewCall("create", "mut_sent", user,
                            [nome_completo |-> data.nome_completo,
                             data_nascimento |-> data.data_nascimento,
                             cpf |-> data.cpf,
                             telefone |-> data.telefone,
                             endereco_completo |-> data.endereco_completo,
                             user_id |-> user])}
    /\ budget' = budget - 1

\* handleUpdatePatient(data), up to its first await: update({five fields}).eq('id', data.id)
handleUpdatePatient(data) ==
    /\ HasFree
    /\ calls' = calls \cup
                   {NewCall("update", "mut_sent", user,
                            [nome_completo |-> data.nome_completo,
                             data_nascimento |-> data.data_nascimento,
                             cpf |-> data.cpf,
                             telefone |-> data.telefone,
                             endereco_completo |-> data.endereco_completo,
                             id |-> data.id])}
    /\ budget' = budget - 1

\* ------------------------------------------------------------- PatientForm
Forms == {"create", "edit"}
FormOf(f) == IF f = "create" THEN createForm ELSE editForm
FormIsOpen(f) == IF f = "create" THEN isFormOpen ELSE editingPatient # Null

\* reset(): the working values go back to the default values, errors are cleared.
ResetForm(form) == [values |-> form.defaults, defaults |-> form.defaults, errors |-> {}]

SetForm(f, form) ==
    /\ createForm' = IF f = "create" THEN form ELSE createForm
    /\ editForm' = IF f = "edit" THEN form ELSE editForm

\* Typing into the inputs: register() for name, date and address,
\* handleCPFChange / handlePhoneChange for tax id and phone.
Fill(f, raw) ==
    /\ FormIsOpen(f)
    /\ raw \in RawInputs
    /\ SetForm(f, [FormOf(f) EXCEPT !.values =
            Raw(raw.nome_completo, raw.data_nascimento, formatCPF(raw.cpf),
                formatPhone(raw.telefone), raw.endereco_completo),
                                    !.errors = {}])
    /\ toast' = <<>>
    /\ UNCHANGED <<user, db, serial, budget, patients, loading, calls, searchTerm,
                   isFormOpen, editingPatient, deletingPatient>>

\* Variant: the payload is passed on as it is, the record's id is not attached.
handleFormSubmitNoId(f, data) ==
    /\ handleCreatePatient(data)
    /\ SetForm(f, ResetForm(FormOf(f)))

\* What the user's next key leaves in an input showing `value`: a digit (the
\* digits come in the order 1, 2, ... 9, 0, 1, ...), a letter or a separator
\* appended.
DigitKeys == <<"1", "2", "3", "4", "5", "6", "7", "8", "9", "0">>
DigitKey(value) == DigitKeys[(Len(StripNonDigits(value)) % Len(DigitKeys)) + 1]
Keyed(value) ==
    {Append(value, k) : k \in {DigitKey(value), "x", ".", "("}}

\* handleCPFChange: setValue('cpf', formatCPF(e.target.value))
handleCPFChange(f, text) ==
    /\ FormIsOpen(f)
    /\ text \in Keyed(FormOf(f).values.cpf)
    /\ Len(StripNonDigits(text)) <= MaxTyped
    /\ SetForm(f, [FormOf(f) EXCEPT !.values.cpf = formatCPF(text)])
    /\ toast' = <<>>
    /\ UNCHANGED <<user, db, serial, budget, patients, loading, calls, searchTerm,
                   isFormOpen, editingPatient, deletingPatient>>

\* handlePhoneChange: setValue('telefone', formatPhone(e.target.value))
handlePhoneChange(f, text) ==
    /\ FormIsOpen(f)
    /\ text \in Keyed(FormOf(f).values.telefone)
    /\ Len(StripNonDigits(text)) <= MaxTyped
    /\ SetForm(f, [FormOf(f) EXCEPT !.values.telefone = formatPhone(text)])
    /\ toast' = <<>>
    /\ UNCHANGED <<user, db, serial, budget, patients, loading, calls, searchTerm,
                   isFormOpen, editingPatient, deletingPatient>>

\* handleFormSubmit(data): onSubmit(...) then reset()
handleFormSubmit(f, data) ==
    /\ IF f = "edit"
       THEN handleUpdatePatient([nome_completo |-> data.nome_completo,
                                 data_nascimento |-> data.data_nascimento,
                                 cpf |-> data.cpf,
                                 telefone |-> data.telefone,
                                 endereco_completo |-> data.endereco_completo,
                                 id |-> editingPatient.id])
       ELSE handleCreatePatient(data)
    /\ SetForm(f, ResetForm(FormOf(f)))

\* onSubmit={handleSubmit(handleFormSubmit)}: the resolver runs the schema first.
SubmitForm(f) ==
    /\ FormIsOpen(f)
    /\ IF SchemaErrors(FormOf(f).values) # {}
       THEN /\ SetForm(f, [FormOf(f) EXCEPT !.errors = SchemaErrors(FormOf(f).values)])
            /\ UNCHANGED <<calls, budget>>
       ELSE handleFormSubmit(f, SchemaParse(FormOf(f).values))
    /\ toast' = <<>>
    /\ UNCHANGED <<user, db, serial, patients, loading, searchTerm, isFormOpen,
                   editingPatient, deletingPatient>>

\* handleClose: reset(); onClose()
handleClose(f) ==
    /\ FormIsOpen(f)
    /\ SetForm(f, ResetForm(FormOf(f)))
    /\ isFormOpen' = IF f = "create" THEN FALSE ELSE isFormOpen
    /\ editingPatient' = IF f = "edit" THEN Null ELSE editingPatient
    /\ toast' = <<>>
    /\ UNCHANGED <<user, db, serial, budget, patients, loading, calls, searchTerm, deletingPatient>>


\* -------------------------------------------------- the remote store's steps
\* The store executes the insert, update or delete a handler is suspended on.
ServerMutation(c) ==
    /\ c \in calls
    /\ c.phase = "mut_sent"
    /\ LET ok == CASE c.origin = "create" -> InsertOk(db, c.uid, c.arg)
                   [] c.origin = "update" -> UpdateOk(db, c.uid, c.arg)
                   [] OTHER -> TRUE
       IN  /\ db' = IF ~ok THEN db
                    ELSE CASE c.origin = "create" -> db \cup {InsertRow(c.arg, serial + 1)}
                           [] c.origin = "update" -> UpdateRows(db, c.uid, c.arg)
                           [] OTHER -> DeleteRows(db, c.uid, c.arg.id)
           /\ serial' = IF ok /\ c.origin = "create" THEN serial + 1 ELSE serial
           /\ calls' = Become(c, [c EXCEPT !.phase = "mut_done", !.ok = ok])
    /\ UNCHANGED <<user, budget, patients, loading, toast>>
    /\ UNCHANGED uiVars

\* The store answers a select with the caller's rows, most recent first.
ServerSelect(c) ==
    /\ c \in calls
    /\ c.phase = "sel_sent"
    /\ calls' = Become(c, [c EXCEPT !.phase = "sel_done", !.ok = TRUE,
                                    !.rows = SelectAll(db, c.uid)])
    /\ UNCHANGED <<user, db, serial, budget, patients, loading, toast>>
    /\ UNCHANGED uiVars

\* A request that does not reach the store (transport error): { error } is set.
RequestFails(c) ==
    /\ c \in calls
    /\ c.phase \in {"mut_sent", "sel_sent"}
    /\ calls' = Become(c, [c EXCEPT !.phase = IF c.phase = "mut_sent"
                                              THEN "mut_done" ELSE "sel_done",
                                    !.ok = FALSE])
    /\ UNCHANGED <<user, db, serial, budget, patients, loading, toast>>
    /\ UNCHANGED uiVars

\* ------------------------------------------------ handlers after their await
SuccessTitle(origin) ==
    CASE origin = "create" -> "Paciente cadastrado com sucesso!"
      [] origin = "update" -> "Paciente atualizado com sucesso!"
      [] OTHER -> "Paciente excluido com sucesso!"

ErrorTitle(origin) ==
    CASE origin = "create" -> "Erro ao cadastrar paciente"
      [] origin = "update" -> "Erro ao atualizar paciente"
      [] OTHER -> "Erro ao excluir paciente"

\* fetchPatients(), up to its await: the select is sent under the current session.
fetchPatients(c) ==
    calls' = Become(c, [c EXCEPT !.phase = "sel_sent", !.uid = user, !.ok = FALSE])

\* Variant: the reload moved to a finally block, so it also follows a failure.
MutationFailedReload(c) ==
    /\ toast' = <<Toast(ErrorTitle(c.origin), "destructive")>>
    /\ calls' = Become(c, [c EXCEPT !.phase = "sel_sent", !.uid = user, !.ok = FALSE])

\* catch (error) { toast({...destructive}) }: the handler ends there.
MutationFailed(c) ==
    /\ toast' = <<Toast(ErrorTitle(c.origin), "destructive")>>
    /\ calls' = Finish(c)

\* if (error) throw error; toast({...}); await fetchPatients();
MutationSucceeded(c) ==
    /\ toast' = <<Toast(SuccessTitle(c.origin), "default")>>
    /\ fetchPatients(c)

\* Variant: the handler patches the list itself (the mock version's way).
PatientsAfterMutationOptimistic(c) ==
    IF c.ok /\ c.origin = "delete"
    THEN SelectSeq(patients, LAMBDA p : p.id # c.arg.id)
    ELSE patients

\* The handlers never call setPatients: the list is left to fetchPatients.
PatientsAfterMutation(c) == patients

\* handleCreatePatient / handleUpdatePatient / handleDeletePatient resume when
\* the insert, update or delete has settled.
MutationSettled(c) ==
    /\ c \in calls
    /\ c.phase = "mut_done"
    /\ IF c.ok THEN MutationSucceeded(c) ELSE MutationFailed(c)
    /\ patients' = PatientsAfterMutation(c)
    /\ UNCHANGED <<user, db, serial, budget, loading>>
    /\ UNCHANGED uiVars

\* Variant of fetchPatients' setPatients: merging instead of replacing.
PatientsAfterLoadMerged(c) == IF c.ok THEN c.rows \o patients ELSE patients

\* Variant: a load's rows are dropped when a request started later exists.
PatientsAfterLoadLatestOnly(c) ==
    IF c.ok /\ \A d \in calls : d.n <= c.n THEN c.rows ELSE patients

\* fetchPatients: setPatients(data || []) on success, the collection is kept on error.
PatientsAfterLoad(c) == IF c.ok THEN c.rows ELSE patients

\* Variant: fetchPatients with an empty catch block.
ToastAfterLoadSilent(c) == <<>>

\* fetchPatients: catch (error) { toast({...destructive}) }
ToastAfterLoad(c) ==
    IF c.ok THEN <<>> ELSE <<Toast("Erro ao carregar pacientes", "destructive")>>

\* Variant: handleCreatePatient without its setIsFormOpen(false).
FormOpenAfterKept(c) == isFormOpen

\* What follows `await fetchPatients()` in each handler.
FormOpenAfter(c) == IF c.origin = "create" THEN FALSE ELSE isFormOpen
EditingAfter(c) == IF c.origin = "update" THEN Null ELSE editingPatient
DeletingAfter(c) == IF c.origin = "delete" THEN Null ELSE deletingPatient

\* fetchPatients resumes when the select has settled, and the handler that
\* awaited it runs to its end.
LoadSettled(c) ==
    /\ c \in calls
    /\ c.phase = "sel_done"
    /\ patients' = PatientsAfterLoad(c)
    /\ toast' = ToastAfterLoad(c)
    /\ loading' = FALSE
    /\ isFormOpen' = FormOpenAfter(c)
    /\ editingPatient' = EditingAfter(c)
    /\ deletingPatient' = DeletingAfter(c)
    /\ calls' = Finish(c)
    /\ UNCHANGED <<user, db, serial, budget, searchTerm, createForm, editForm>>

\* -------------------------------------------------------------------- Next
NextOver(inputs, terms) ==
    \/ \E u \in Users : SessionStart(u)
    \/ handleLogout
    \/ ClickNew
    \/ \E term \in terms : SetSearch(term)
    \/ \E i \in 1..(Cardinality(SeedRows) + MaxInserts) : handleEditClick(i)
    \/ \E i \in 1..(Cardinality(SeedRows) + MaxInserts) : handleDeleteClick(i)
    \/ CancelDelete
    \/ ConfirmDelete
    \/ \E f \in Forms, raw \in inputs : Fill(f, raw)
    \/ \E f \in Forms : SubmitForm(f)
    \/ \E f \in Forms : handleClose(f)
    \/ \E c \in calls : ServerMutation(c)
    \/ \E c \in calls : ServerSelect(c)
    \/ \E c \in calls : RequestFails(c)
    \/ \E c \in calls : MutationSettled(c)
    \/ \E c \in calls : LoadSettled(c)

\* The whole program, the user typing the common entries.
Next == NextOver(CommonInputs, CommonTerms)

Spec == Init /\ [][Next]_vars

\* The same program, the user typing any of the sample entries.
NextForm == NextOver(RawInputs, CommonTerms)

SpecForm == InitWith(FormOps) /\ [][NextForm]_vars

\* The same program, the user typing any of the search terms.
NextSearch == NextOver(CommonInputs, SearchTerms)

SpecSearch == InitWith(SearchOps) /\ [][NextSearch]_vars

\* The same program, the tax id typed key by key.
OneInput == {Raw(NamePadded, DateOk, CpfRawB, TelRaw11, AddrRua)}
OneTerm == {<<"a", "n">>}

NextCpf ==
    \/ NextOver(OneInput, OneTerm)
    \/ \E f \in Forms : \E text \in Keyed(FormOf(f).values.cpf) : handleCPFChange(f, text)

SpecCpf == InitWith(TypeOps) /\ [][NextCpf]_vars

\* The same program, the phone typed key by key into the creation form.
NextPhone ==
    \/ NextOver(OneInput, OneTerm)
    \/ \E text \in Keyed(createForm.values.telefone) : handlePhoneChange("create", text)

SpecPhone == InitWith(TypeOps) /\ [][NextPhone]_vars

\* The same program, the other account signing in on this browser too.
NextIso ==
    \/ NextOver(OneInput, OneTerm)
    \/ SessionStart(OtherUser)

SpecIso == InitWith(IsoOps) /\ [][NextIso]_vars

\* The same program used one operation at a time: a sign-in, create, update
\* or delete starts only when no request is in flight, and every select that
\* is sent is answered (a create, update or delete may still fail).
NextSeq ==
    \/ \E u \in Users : calls = {} /\ SessionStart(u)
    \/ handleLogout
    \/ ClickNew
    \/ \E term \in OneTerm : SetSearch(term)
    \/ \E i \in 1..(Cardinality(SeedRows) + MaxInserts) : handleEditClick(i)
    \/ \E i \in 1..(Cardinality(SeedRows) + MaxInserts) : handleDeleteClick(i)
    \/ CancelDelete
    \/ calls = {} /\ ConfirmDelete
    \/ \E f \in Forms, raw \in CommonInputs : Fill(f, raw)
    \/ \E f \in Forms : calls = {} /\ SubmitForm(f)
    \/ \E f \in Forms : handleClose(f)
    \/ \E c \in calls : ServerMutation(c)
    \/ \E c \in calls : ServerSelect(c)
    \/ \E c \in calls : c.phase = "mut_sent" /\ RequestFails(c)
    \/ \E c \in calls : MutationSettled(c)
    \/ \E c \in calls : LoadSettled(c)

SpecSeq == InitWith(SeqOps) /\ [][NextSeq]_vars

\* Every remote request settles, and the handler suspended on it resumes.
Progress(n) ==
    \E c \in calls :
        /\ c.n = n
        /\ \/ ServerMutation(c)
           \/ ServerSelect(c)
           \/ MutationSettled(c)
           \/ LoadSettled(c)

SpecLive ==
    /\ InitWith(LiveOps)
    /\ [][Next]_vars
    /\ \A n \in 1..MaxOps : WF_vars(Progress(n))


\* ================================================================== claims
LoadErrorToast == Toast("Erro ao carregar pacientes", "destructive")

\* The calls that settle in a step are those that leave `calls`.
\* C1: the collection changes only when a successful load completes, and then
\* it becomes exactly the rows that load returned; no create, update or delete
\* handler writes to it.
C1_OnlyLoadWritesPatients ==
    [][patients' # patients =>
          \E c \in calls : /\ c.phase = "sel_done" /\ c.ok
                           /\ c \notin calls'
                           /\ patients' = c.rows]_vars

\* A reload that followed a successful create has replaced the collection.
C1_Witness ==
    /\ Len(patients) = 2
    /\ serial = Cardinality(SeedRows) + 1
    /\ calls = {}

\* C2: a load that fails leaves the collection as it was and raises an error
\* notification; a load that succeeds replaces the whole collection by the
\* returned rows; either way loading ends false.
C2_LoadContract ==
    [][\A c \in calls :
          (c.phase = "sel_done" /\ c \notin calls') =>
              /\ loading' = FALSE
              /\ c.ok => patients' = c.rows
              /\ ~c.ok => (patients' = patients /\ toast' = <<LoadErrorToast>>)]_vars

\* A failed reload was reported while the earlier rows are still listed.
C2_Witness ==
    /\ toast = <<LoadErrorToast>>
    /\ patients # <<>>
    /\ ~loading

\* C3: when a remote insert, update or delete fails, the settlement leaves
\* isFormOpen, editingPatient, deletingPatient and the collection as they
\* were, reports the error, and sends no load.
C3_FailureKeepsDialog ==
    [][\A c \in calls :
          (c.phase = "mut_done" /\ ~c.ok /\ c \notin calls') =>
              /\ isFormOpen' = isFormOpen
              /\ editingPatient' = editingPatient
              /\ deletingPatient' = deletingPatient
              /\ patients' = patients
              /\ calls' = calls \ {c}
              /\ toast' = <<Toast(ErrorTitle(c.origin), "destructive")>>]_vars

\* A failed update was reported with the edit form still open on its record.
C3_Witness ==
    /\ toast = <<Toast(ErrorTitle("update"), "destructive")>>
    /\ editingPatient # Null
    /\ calls = {}


\* Requests that come into being in a step, and requests that leave it.
IssuedCalls == {c \in calls' : \A d \in calls : d.n # c.n}
SettledCalls == {c \in calls : \A d \in calls' : d.n # c.n}

\* C4: a submit that emits a create or update request leaves the form's
\* working values as the user submitted them (they are cleared only on the
\* caller's acknowledgement of success), so that they are still there if the
\* request fails.
C4_ValuesSurviveSubmit ==
    [][\A c \in IssuedCalls :
          /\ (c.phase = "mut_sent" /\ c.origin = "create") =>
                 createForm'.values = createForm.values
          /\ (c.phase = "mut_sent" /\ c.origin = "update") =>
                 editForm'.values = editForm.values]_vars

\* C6: a delete request appears only in a step taken with a record staged, and
\* it carries that record's id; staging a record, and leaving the staged state
\* without a call settling (cancel), send nothing and leave the collection as
\* it was.
C6_DeleteOnlyOnConfirm ==
    [][/\ \A c \in IssuedCalls :
              c.origin = "delete" =>
                  /\ c.phase = "mut_sent"
                  /\ deletingPatient # Null
                  /\ c.arg.id = deletingPatient.id
                  /\ deletingPatient' = deletingPatient
       /\ (deletingPatient = Null /\ deletingPatient' # Null) =>
              (calls' = calls /\ patients' = patients)
       /\ (deletingPatient # Null /\ deletingPatient' = Null /\ SettledCalls = {}) =>
              (calls' = calls /\ patients' = patients)]_vars

\* The delete request for the staged record is in flight, the dialog still open.
C6_Witness ==
    \E c \in calls : /\ c.origin = "delete" /\ c.phase = "mut_sent"
                     /\ deletingPatient # Null
                     /\ c.arg.id = deletingPatient.id
                     /\ Len(patients) = 2

\* C7: the staged record is cleared only by a cancel (no call settles in the
\* step) or by the settlement of a delete call issued for that same record.
C7_GateClearedOnlyForOwnDelete ==
    [][(deletingPatient # Null /\ deletingPatient' = Null) =>
          \/ calls' = calls
          \/ \E c \in SettledCalls : /\ c.origin = "delete"
                                     /\ c.arg.id = deletingPatient.id]_vars


\* C5: a mutation the store accepted is followed by a load request of the
\* same handler, and, every request settling, the dialog that started it is
\* eventually closed: isFormOpen false after a create, editingPatient null
\* after an update, deletingPatient null after a delete.
C5_SuccessReloadsAndCloses ==
    /\ [][\A c \in calls :
             (c.phase = "mut_done" /\ c.ok /\ c \notin calls') =>
                 \E d \in calls' : d.n = c.n /\ d.phase = "sel_sent"]_vars
    /\ (\E c \in calls : c.origin = "create" /\ c.phase = "mut_done" /\ c.ok)
           ~> (isFormOpen = FALSE)
    /\ (\E c \in calls : c.origin = "update" /\ c.phase = "mut_done" /\ c.ok)
           ~> (editingPatient = Null)
    /\ (\E c \in calls : c.origin = "delete" /\ c.phase = "mut_done" /\ c.ok)
           ~> (deletingPatient = Null)

\* The reload that follows an accepted create is in flight, the form still open.
C5_Witness ==
    \E c \in calls : /\ c.origin = "create" /\ c.phase = "sel_sent"
                     /\ isFormOpen
                     /\ serial = Cardinality(SeedRows) + 1

\* The schema as the form's contract words it: a text has the shape of a
\* mask when it has its length, a digit wherever the mask has a D, and the
\* mask's own character elsewhere.
Shaped(s, mask) ==
    /\ Len(s) = Len(mask)
    /\ \A i \in 1..Len(mask) : IF mask[i] = "D" THEN s[i] \in Digit ELSE s[i] = mask[i]

TaxIdMask == <<"D", "D", "D", ".", "D", "D", "D", ".", "D", "D", "D", "-", "D", "D">>
PhoneMask10 == <<"(", "D", "D", ")", " ", "D", "D", "D", "D", "-", "D", "D", "D", "D">>
PhoneMask11 == <<"(", "D", "D", ")", " ", "D", "D", "D", "D", "D", "-", "D", "D", "D", "D">>

EveryFieldPasses(v) ==
    /\ Len(Trim(v.nome_completo)) \in 1..NameMax
    /\ v.data_nascimento # EmptyStr
    /\ Shaped(v.cpf, TaxIdMask)
    /\ v.telefone = EmptyStr \/ Shaped(v.telefone, PhoneMask10) \/ Shaped(v.telefone, PhoneMask11)
    /\ Len(v.endereco_completo) <= AddressMax

PayloadOf(arg) ==
    Raw(arg.nome_completo, arg.data_nascimento, arg.cpf, arg.telefone, arg.endereco_completo)

\* C8: an insert or update request is issued only by a step taken with every
\* field of the submitting form passing the schema, and its payload is those
\* values (name and tax id trimmed); a step that marks a field as failing
\* issues no request and leaves the form open with the values it had.
C8_OnlyValidPayloads ==
    [][/\ \A c \in IssuedCalls :
              /\ c.origin = "create" =>
                     /\ EveryFieldPasses(createForm.values)
                     /\ PayloadOf(c.arg) = SchemaParse(createForm.values)
              /\ c.origin = "update" =>
                     /\ EveryFieldPasses(editForm.values)
                     /\ PayloadOf(c.arg) = SchemaParse(editForm.values)
       /\ (createForm'.errors # {} /\ createForm'.errors # createForm.errors) =>
              /\ ~EveryFieldPasses(createForm.values)
              /\ IssuedCalls = {}
              /\ createForm'.values = createForm.values
              /\ isFormOpen /\ isFormOpen'
       /\ (editForm'.errors # {} /\ editForm'.errors # editForm.errors) =>
              /\ ~EveryFieldPasses(editForm.values)
              /\ IssuedCalls = {}
              /\ editForm'.values = editForm.values
              /\ editingPatient # Null /\ editingPatient' = editingPatient]_vars

\* An accepted entry is on its way to the store, and a submit of the edit form
\* has been refused for its address alone.
C8_Witness ==
    /\ \E c \in calls : c.origin = "create" /\ c.phase = "mut_sent"
    /\ editForm.errors = {"endereco_completo"}
    /\ Len(editForm.values.endereco_completo) = AddressMax + 1
    /\ editingPatient # Null

\* C9: a request issued from the edit form is an update keyed by the id of the
\* record the form was opened with, and the store changes no row with another
\* id when it executes it; a request issued from the creation form is an
\* insert whose payload has no id.
C9_EditKeepsIdCreateHasNone ==
    [][/\ \A c \in IssuedCalls :
              c.origin \in {"create", "update"} =>
                  /\ c.origin = "update" <=> editingPatient # Null
                  /\ c.origin = "create" <=> isFormOpen
                  /\ c.origin = "update" =>
                         /\ "id" \in DOMAIN c.arg
                         /\ c.arg.id = editingPatient.id
                  /\ c.origin = "create" => "id" \notin DOMAIN c.arg
       /\ \A c \in calls :
              (c.origin = "update" /\ c.phase = "mut_sent" /\ c \notin calls') =>
                  \A r \in db : r.id # c.arg.id => r \in db']_vars

\* An update with a changed name is in flight for the record being edited.
C9_Witness ==
    \E c \in calls : /\ c.origin = "update" /\ c.phase = "mut_sent"
                     /\ editingPatient # Null
                     /\ c.arg.id = editingPatient.id
                     /\ c.arg.nome_completo # editingPatient.nome_completo

\* C10 as worded: no select is sent in a step that ends with no session.
C10_NoLoadWithoutSession ==
    [][\A c \in calls' :
          (c.phase = "sel_sent" /\ \A d \in calls : d.n = c.n => d.phase # "sel_sent") =>
              user' # NoUser]_vars

\* C10: the load of the session effect is issued exactly by the steps in which
\* a session identity becomes present, and under that identity; until the
\* first load has completed no select is sent without a session.
C10_InitialLoadNeedsSession ==
    [][/\ \A c \in IssuedCalls :
              c.origin = "effect" =>
                  /\ user = NoUser /\ user' # NoUser
                  /\ c.phase = "sel_sent" /\ c.uid = user'
       /\ (user = NoUser /\ user' # NoUser) =>
              \E c \in IssuedCalls : c.origin = "effect" /\ c.phase = "sel_sent"
       /\ loading =>
              \A c \in calls' :
                  (c.phase = "sel_sent" /\ c \notin calls) => user' # NoUser]_vars

\* The session has started and its load is in flight; nothing is listed yet.
C10_Witness ==
    \E c \in calls : /\ c.origin = "effect" /\ c.phase = "sel_sent"
                     /\ c.uid = user /\ user # NoUser
                     /\ loading /\ patients = <<>>


\* C11 as worded: every insert request carries the session identity as owner,
\* and is never sent while there is no session identity.
C11_OwnerNeverAbsent ==
    [][\A c \in IssuedCalls :
          c.origin = "create" => (c.arg.user_id = user /\ user # NoUser)]_vars

\* C11: every insert request carries as owner the session identity of the
\* moment it is sent, attached by the handler to the five fields the form
\* emitted; none is sent before the first load has settled, and that load was
\* sent under a present identity; a row the store accepts is owned by the
\* session that inserted it.
C11_OwnerIsSessionAtSend ==
    [][/\ \A c \in IssuedCalls :
              c.origin = "create" =>
                  /\ c.arg.user_id = user /\ c.uid = user /\ user' = user
                  /\ DOMAIN createForm.values = FieldNames
                  /\ PayloadOf(c.arg) = SchemaParse(createForm.values)
                  /\ ~loading
       /\ (loading /\ ~loading') =>
              \E c \in SettledCalls : c.origin = "effect" /\ c.uid # NoUser
       /\ \A r \in db' \ db :
              (\A q \in db : q.id # r.id) =>
                  \E c \in calls : /\ c.origin = "create" /\ c.phase = "mut_sent"
                                   /\ r.user_id = c.uid /\ c.uid # NoUser]_vars

\* The store has accepted an insert sent under the session, owner attached.
C11_Witness ==
    \E c \in calls : /\ c.origin = "create" /\ c.phase = "mut_done" /\ c.ok
                     /\ c.arg.user_id = "u1" /\ user = "u1"
                     /\ \E r \in db : r.cpf = c.arg.cpf /\ r.user_id = "u1"


\* The filter as its contract words it: two characters are the same ignoring
\* case when they are equal or the two cases of one letter.
SameIgnoringCase(a, b) ==
    \/ a = b
    \/ \E k \in 1..Len(UpperChars) : {a, b} = {UpperChars[k], LowerChars[k]}

NameHasTerm(p) ==
    \E k \in 0..(Len(p.nome_completo) - Len(searchTerm)) :
        \A i \in 1..Len(searchTerm) : SameIgnoringCase(p.nome_completo[k + i], searchTerm[i])

TaxIdHasTerm(p) ==
    \E k \in 0..(Len(p.cpf) - Len(searchTerm)) :
        SubSeq(p.cpf, k + 1, k + Len(searchTerm)) = searchTerm

MatchingRows == {i \in 1..Len(patients) : NameHasTerm(patients[i]) \/ TaxIdHasTerm(patients[i])}

\* C12: the filtered view is exactly the matching records of the collection,
\* in the collection's order; with an empty term it is the whole collection;
\* a step that changes the search term changes neither the collection nor
\* the store.
C12_FilterIsDerivedView ==
    /\ [](/\ Len(filteredPatients) = Cardinality(MatchingRows)
          /\ \A i \in MatchingRows :
                 filteredPatients[Cardinality({j \in MatchingRows : j <= i})] = patients[i]
          /\ searchTerm = EmptyStr => filteredPatients = patients)
    /\ [][searchTerm' # searchTerm => (patients' = patients /\ db' = db)]_vars

\* Two records are listed; the upper-case term keeps only the older one.
C12_Witness ==
    /\ Len(patients) = 2
    /\ searchTerm = <<"A", "N">>
    /\ filteredPatients = <<patients[2]>>


\* The digits of a text, in order, read off the places that hold a digit.
DigitPlaces(s) == {i \in 1..Len(s) : s[i] \in Digit}
DigitsOf(s) ==
    [k \in 1..Cardinality(DigitPlaces(s)) |->
        s[CHOOSE i \in DigitPlaces(s) : Cardinality({j \in DigitPlaces(s) : j <= i}) = k]]

FormAfter(f) == IF f = "create" THEN createForm' ELSE editForm'

\* C13: whenever the tax id input changes to a text, the field becomes: the
\* text's digits in order in the shape DDD.DDD.DDD-DD when they are exactly
\* eleven, and the bare digits, with no separator, for any other count.
C13_TaxIdFormatter ==
    [][\A f \in Forms : \A text \in Keyed(FormOf(f).values.cpf) :
          handleCPFChange(f, text) =>
              LET digits == DigitsOf(text)
                  out == FormAfter(f).values.cpf
              IN  IF Len(digits) = 11
                  THEN Shaped(out, TaxIdMask) /\ DigitsOf(out) = digits
                  ELSE out = digits]_vars

\* Twelve digits were typed: the field was formatted at the eleventh key and
\* is bare again.
C13_Witness ==
    /\ isFormOpen
    /\ createForm.values.cpf = DigitKeys \o <<"1", "2">>


\* C14: whenever the phone input changes to a text, the field becomes: the
\* text's digits in order as (DD) DDDDD-DDDD when they are exactly eleven, as
\* (DD) DDDD-DDDD when they are exactly ten, and the bare digits for any
\* other count.
C14_PhoneFormatter ==
    [][\A f \in Forms : \A text \in Keyed(FormOf(f).values.telefone) :
          handlePhoneChange(f, text) =>
              LET digits == DigitsOf(text)
                  out == FormAfter(f).values.telefone
              IN  CASE Len(digits) = 11 -> Shaped(out, PhoneMask11) /\ DigitsOf(out) = digits
                    [] Len(digits) = 10 -> Shaped(out, PhoneMask10) /\ DigitsOf(out) = digits
                    [] OTHER -> out = digits]_vars

\* Twelve digits were typed: the field took the ten-digit shape, then the
\* eleven-digit one, and is bare again.
C14_Witness ==
    /\ isFormOpen
    /\ createForm.values.telefone = DigitKeys \o <<"1", "2">>


\* The request `c` as the step leaves it, when the step moves it to `phase`.
MovesTo(c, phase) == {d \in calls' : d.n = c.n /\ c.phase # phase /\ d.phase = phase}

OwnedBy(d, uid) == {r \in d : r.user_id = uid}

\* C15: when the store accepts a create's insert, the caller's rows grow by
\* exactly one row, which carries the payload's five fields, a new id and a
\* registration time later than every other row's; the load that follows
\* returns all the caller's rows, most recent first, so that row, while it is
\* the caller's most recent, comes first; and the collection becomes what the
\* load returned.
C15_CreateRoundTrip ==
    [][\A c \in calls :
          c.origin = "create" =>
              /\ \A d \in MovesTo(c, "mut_done") :
                     d.ok =>
                         \E r \in db' :
                             /\ r \notin db /\ db' = db \cup {r}
                             /\ OwnedBy(db', c.uid) = OwnedBy(db, c.uid) \cup {r}
                             /\ Cardinality(OwnedBy(db', c.uid)) = Cardinality(OwnedBy(db, c.uid)) + 1
                             /\ PayloadOf(r) = PayloadOf(c.arg)
                             /\ \A q \in db : q.id # r.id /\ q.data_cadastro < r.data_cadastro
              /\ \A d \in MovesTo(c, "sel_done") :
                     d.ok =>
                         /\ Len(d.rows) = Cardinality(OwnedBy(db, c.uid))
                         /\ \A r \in OwnedBy(db, c.uid) : \E i \in 1..Len(d.rows) : d.rows[i] = r
                         /\ \A i, j \in 1..Len(d.rows) :
                                i < j => d.rows[i].data_cadastro > d.rows[j].data_cadastro
                         /\ \A r \in OwnedBy(db, c.uid) :
                                (r.cpf = c.arg.cpf /\ \A q \in OwnedBy(db, c.uid) : q.data_cadastro <= r.data_cadastro)
                                    => (d.rows[1] = r /\ PayloadOf(d.rows[1]) = PayloadOf(c.arg))
              /\ (c.phase = "sel_done" /\ c.ok /\ MovesTo(c, "sel_done") = {} /\ c \notin calls') =>
                     patients' = c.rows]_vars

\* The round trip is over: the new record, its name trimmed and its id new,
\* is listed first, before the record the store already held.
C15_Witness ==
    /\ calls = {}
    /\ Len(patients) = 2
    /\ patients[1].nome_completo = Trim(NamePadded)
    /\ patients[1].cpf = CpfRawB
    /\ patients[1].id \notin {r.id : r \in SeedRows}
    /\ patients[2] \in SeedRows


\* An insert or update that, executed, would give a second row the tax id of
\* a row the store holds.
WouldDuplicate(c) ==
    \/ /\ c.origin = "create"
       /\ \E r \in db : r.cpf = c.arg.cpf
    \/ /\ c.origin = "update"
       /\ \E t \in db : /\ t.id = c.arg.id /\ t.user_id = c.uid
                        /\ \E r \in db : r.id # t.id /\ r.cpf = c.arg.cpf

\* C16: no two rows of the store, whoever owns them, have the same tax id,
\* and neither have two records of the collection; an insert or update that
\* would duplicate a tax id is answered with an error and leaves the store
\* as it was.
C16_TaxIdUnique ==
    /\ [](/\ \A r, q \in db : r.cpf = q.cpf => r = q
          /\ \A i, j \in 1..Len(patients) : patients[i].cpf = patients[j].cpf => i = j)
    /\ [][\A c \in calls :
             (c.phase = "mut_sent" /\ WouldDuplicate(c)) =>
                 \A d \in MovesTo(c, "mut_done") : ~d.ok /\ db' = db]_vars

\* A create repeating the tax id of another account's record was refused.
C16_Witness ==
    \E c \in calls : /\ c.origin = "create" /\ c.phase = "mut_done" /\ ~c.ok
                     /\ c.uid = "u1"
                     /\ \E r \in db : r.cpf = c.arg.cpf /\ r.user_id = OtherUser
                     /\ db = SeedRows


\* C17: every row has one owner, an account, which is the session that
\* inserted it and never changes; a select returns only rows owned by the
\* session that sent it; an update or delete leaves every row owned by
\* another account in the store as it was, whatever id it names.
C17_OwnerIsolation ==
    /\ [](\A r \in db : r.user_id \in Accounts)
    /\ [][/\ \A r \in db : \A q \in db' : q.id = r.id => q.user_id = r.user_id
          /\ \A r \in db' :
                 (\A q \in db : q.id # r.id) =>
                     \E c \in calls : /\ c.origin = "create" /\ c.phase = "mut_sent"
                                      /\ r.user_id = c.uid
          /\ \A c \in calls :
                 /\ \A d \in MovesTo(c, "sel_done") :
                        \A i \in 1..Len(d.rows) : d.rows[i].user_id = c.uid
                 /\ (c.origin \in {"update", "delete"} /\ MovesTo(c, "mut_done") # {}) =>
                        \A r \in db : r.user_id # c.uid => r \in db']_vars

\* A session has sent an update or delete naming another account's record
\* (from a list loaded under the previous session); the store answered
\* without error and holds the same rows.
C17_Witness ==
    \E c \in calls : /\ c.origin \in {"update", "delete"}
                     /\ c.phase = "mut_done" /\ c.ok
                     /\ c.uid \in Accounts
                     /\ \E r \in db : r.id = c.arg.id /\ r.user_id # c.uid
                     /\ db = SeedRows


\* The record of the seed rows the signed-in user owns.
OwnSeed == CHOOSE r \in SeedRows : r.user_id \in Users

\* C18: when the store accepts an update, the row with the payload's id that
\* the caller owns takes the payload's five fields and keeps its id,
\* registration time and owner; every other row stays as it was and no row
\* appears or disappears.  When the reload of that update completes, the
\* collection is what the reload returned, and a record that was already
\* listed keeps its registration time and owner.
C18_UpdateFrame ==
    [][\A c \in calls :
          c.origin = "update" =>
              /\ (\E d \in MovesTo(c, "mut_done") : d.ok) =>
                     /\ \A r \in db :
                            IF r.id = c.arg.id /\ r.user_id = c.uid
                            THEN \E q \in db' : /\ q.id = r.id
                                                /\ q.data_cadastro = r.data_cadastro
                                                /\ q.user_id = r.user_id
                                                /\ PayloadOf(q) = PayloadOf(c.arg)
                            ELSE r \in db'
                     /\ Cardinality(db') = Cardinality(db)
              /\ (c.phase = "sel_done" /\ c.ok /\ c \in SettledCalls) =>
                     /\ patients' = c.rows
                     /\ \A i \in 1..Len(patients') : \A j \in 1..Len(patients) :
                            patients'[i].id = patients[j].id =>
                                /\ patients'[i].data_cadastro = patients[j].data_cadastro
                                /\ patients'[i].user_id = patients[j].user_id]_vars

\* The user's record was edited, only its name changed, and the list was
\* reloaded: the record is listed with the new name and everything else as
\* it was, and the other account's row is untouched.
C18_Witness ==
    /\ calls = {}
    /\ patients = <<[OwnSeed EXCEPT !.nome_completo = NameUpper]>>
    /\ db = (SeedRows \ {OwnSeed}) \cup {[OwnSeed EXCEPT !.nome_completo = NameUpper]}
    /\ editingPatient = Null


\* The records of a list, as a set.
Listed(s) == {s[i] : i \in 1..Len(s)}

\* C19: the store executing delete(id) removes no row but the one with that
\* id, alters none, and leaves the collection alone; for an id no row has,
\* the request either fails or leaves the store exactly as it was.  The
\* reload that follows is answered with every row the reloading session
\* owns, as stored, so that a listed record with another id that is still
\* stored is among them; and the collection becomes the rows returned.
C19_DeleteAtMostThatRow ==
    [][\A c \in calls :
          c.origin = "delete" =>
              /\ \A d \in MovesTo(c, "mut_done") :
                     /\ db' \subseteq db
                     /\ \A r \in db : r.id # c.arg.id => r \in db'
                     /\ (\A r \in db : r.id # c.arg.id) => (~d.ok \/ db' = db)
                     /\ patients' = patients
              /\ \A d \in MovesTo(c, "sel_done") :
                     d.ok =>
                         /\ Listed(d.rows) = OwnedBy(db, c.uid)
                         /\ \A r \in Listed(patients) :
                                (r.id # c.arg.id /\ r \in db /\ r.user_id = c.uid) =>
                                    r \in Listed(d.rows)
              /\ (c.phase = "sel_done" /\ c.ok /\ c \in SettledCalls) =>
                     patients' = c.rows]_vars

\* The confirm button was pressed twice for the same record: both deletes
\* were executed and answered without error, the second for an id that was
\* no longer there, and the store lost that record only.
C19_Witness ==
    \E c \in calls : \E d \in calls :
        /\ c.n # d.n
        /\ c.origin = "delete" /\ d.origin = "delete"
        /\ c.arg.id = d.arg.id /\ c.arg.id = OwnSeed.id
        /\ c.phase = "mut_done" /\ c.ok
        /\ d.phase = "mut_done" /\ d.ok
        /\ db = SeedRows \ {OwnSeed}


\* The error notification of the request a handler was waiting for.
FailureToast(c) ==
    IF c.phase = "mut_done"
    THEN Toast(ErrorTitle(c.origin), "destructive")
    ELSE LoadErrorToast

\* C20: the step that takes up a failed answer, of a load or of a create,
\* update or delete, is taken by the handler that was waiting for it, raises
\* exactly one notification, the error notification of that request, and
\* ends that handler without another request; and an error notification is
\* raised by no other step.
C20_EveryFailureNotified ==
    [][/\ \A c \in calls :
              (c.phase \in {"mut_done", "sel_done"} /\ ~c.ok /\ c \notin calls') =>
                  /\ toast' = <<FailureToast(c)>>
                  /\ calls' = calls \ {c}
                  /\ c \in SettledCalls
                  /\ IssuedCalls = {}
       /\ (toast' # toast /\ \E i \in 1..Len(toast') : toast'[i].variant = "destructive") =>
              \E c \in SettledCalls : ~c.ok /\ toast' = <<FailureToast(c)>>]_vars

\* A delete that failed was reported, with the confirmation still open on
\* the record and the record still listed.
C20_Witness ==
    /\ toast = <<Toast(ErrorTitle("delete"), "destructive")>>
    /\ deletingPatient # Null
    /\ deletingPatient \in Listed(patients)
    /\ calls = {}


\* C21: nothing orders overlapping requests: whatever else is in flight, the
\* store may answer any request that was sent and any handler whose answer
\* is there may resume.  A successful load that completes makes the
\* collection its result set, whether or not requests started later are in
\* flight or have completed, and no other step writes the collection: so
\* once everything has settled the collection is the result set of the
\* successful load that completed last.
C21_LastLoadWins ==
    /\ [](\A c \in calls :
              /\ c.phase = "mut_sent" => ENABLED ServerMutation(c)
              /\ c.phase = "sel_sent" => ENABLED ServerSelect(c)
              /\ c.phase = "mut_done" => ENABLED MutationSettled(c)
              /\ c.phase = "sel_done" => ENABLED LoadSettled(c))
    /\ [][/\ \A c \in SettledCalls :
                 (c.phase = "sel_done" /\ c.ok) => patients' = c.rows
          /\ patients' # patients =>
                 \E c \in SettledCalls : c.phase = "sel_done" /\ c.ok]_vars

\* A create and a delete overlapped (one sign-in, one create, one delete,
\* no sign-out) and everything has settled: the delete's load, answered
\* before the insert was executed, completed last, so the collection is its
\* empty result set although the store holds the user's new record.
C21_Witness ==
    /\ calls = {}
    /\ budget = 0
    /\ user \in Users
    /\ patients = <<>>
    /\ OwnSeed \notin db
    /\ \E r \in db : r.user_id = user /\ r.nome_completo = Trim(NamePadded)


\* The collection is exactly the rows the store holds for `uid`, most
\* recently registered first.
ListIsStoreOf(uid) ==
    /\ Listed(patients) = {r \in db : r.user_id = uid}
    /\ Len(patients) = Cardinality({r \in db : r.user_id = uid})
    /\ \A i \in 1..Len(patients) : \A j \in 1..Len(patients) :
           i < j => patients[i].data_cadastro > patients[j].data_cadastro

C23_ResubmitCarriesEdit ==
    [][\A c \in IssuedCalls : \A d \in calls :
          (/\ c.origin = "update" /\ d.origin = "update"
           /\ editingPatient # Null
           /\ c.arg.id = editingPatient.id /\ d.arg.id = editingPatient.id
           /\ PayloadOf(d.arg) # ValuesOf(editingPatient)) =>
              /\ PayloadOf(c.arg) # ValuesOf(editingPatient)
              /\ editForm.values = editForm.defaults =>
                     PayloadOf(c.arg) = PayloadOf(d.arg)]_vars

====
